---- MODULE Spec2Model ----
(***************************************************************************)
(* Model of the resume / job-description analyzer.                         *)
(*                                                                         *)
(* Spec        one call of a function of the skill matcher                 *)
(*             (app/services/matcher.py);                                  *)
(* SpecAnalyze the /analyze handler (app/api/routes.py) with the resume    *)
(*             parser, the job-description parser and the model calls of   *)
(*             app/services/llm_service.py; a handler holds the event loop *)
(*             except while it waits in await file.read(), where other     *)
(*             requests are received and served;                           *)
(* SpecCache   the result cache of the specification, section 4.3;         *)
(* SpecFind    find_matched_skills on a candidate list and a longer one;   *)
(* SpecParsers calls of validate_and_clean and of the coroutine            *)
(*             extract_text_from_pdf, which waits in await file.read().    *)
(*                                                                         *)
(* Skill labels and texts are strings over the code points U+0001 to       *)
(* U+00FF; a Python list is a sequence; a dict is a function from its      *)
(* keys.  A percentage is kept in hundredths of a percent (75.0 is 7500,   *)
(* 33.33 is 3333), since the code rounds it to two decimal places; the     *)
(* division and the product before the rounding are those of IEEE-754      *)
(* doubles.                                                                *)
(***************************************************************************)
EXTENDS Integers, Sequences, FiniteSets, TLC

VARIABLES
    call, pc, ret,          \* the matcher call, its position and its result
    request,                \* the upload and the form field of the request served
    step,                   \* the statement of analyze_resume to run next
    resume_text, jd_text,   \* locals of analyze_resume
    resume_data, jd_data,
    matching_result, analysis_data,
    response,               \* what the handler returned or raised
    failed_at,              \* the step whose exception ended the request
    llm_calls,              \* the model calls issued so far, all requests
    saved,                  \* the files save_output opened for this request
    served,                 \* number of requests answered (of calls returned)
    suspended,              \* the coroutines waiting in await file.read()
    result_cache,           \* the result cache, oldest entry first
    inserted                \* keys in the order they entered the cache

mvars == <<call, pc, ret>>

avars == <<request, step, resume_text, jd_text, resume_data, jd_data,
           matching_result, analysis_data, response, failed_at, llm_calls,
           saved, served, suspended>>

cvars == <<result_cache, inserted>>

vars == <<call, pc, ret, request, step, resume_text, jd_text, resume_data,
          jd_data, matching_result, analysis_data, response, failed_at,
          llm_calls, saved, served, suspended, result_cache, inserted>>

(***************************************************************************)
(* Bounds of the inputs.                                                   *)
(***************************************************************************)
MaxResume == 2
MaxRequired == 3
MaxNice == 1
MaxCount == 12

(***************************************************************************)
(* Python str primitives used by the matcher.                              *)
(***************************************************************************)
CharAt(s, i) == SubSeq(s, i, i)

\* the upper-case letters and their lower-case forms
lower_table ==
    "A" :> "a" @@
    "B" :> "b" @@
    "C" :> "c" @@
    "D" :> "d" @@
    "E" :> "e" @@
    "F" :> "f" @@
    "G" :> "g" @@
    "H" :> "h" @@
    "I" :> "i" @@
    "J" :> "j" @@
    "K" :> "k" @@
    "L" :> "l" @@
    "M" :> "m" @@
    "N" :> "n" @@
    "O" :> "o" @@
    "P" :> "p" @@
    "Q" :> "q" @@
    "R" :> "r" @@
    "S" :> "s" @@
    "T" :> "t" @@
    "U" :> "u" @@
    "V" :> "v" @@
    "W" :> "w" @@
    "X" :> "x" @@
    "Y" :> "y" @@
    "Z" :> "z" @@
    "À" :> "à" @@
    "Á" :> "á" @@
    "Â" :> "â" @@
    "Ã" :> "ã" @@
    "Ä" :> "ä" @@
    "Å" :> "å" @@
    "Æ" :> "æ" @@
    "Ç" :> "ç" @@
    "È" :> "è" @@
    "É" :> "é" @@
    "Ê" :> "ê" @@
    "Ë" :> "ë" @@
    "Ì" :> "ì" @@
    "Í" :> "í" @@
    "Î" :> "î" @@
    "Ï" :> "ï" @@
    "Ð" :> "ð" @@
    "Ñ" :> "ñ" @@
    "Ò" :> "ò" @@
    "Ó" :> "ó" @@
    "Ô" :> "ô" @@
    "Õ" :> "õ" @@
    "Ö" :> "ö" @@
    "Ø" :> "ø" @@
    "Ù" :> "ù" @@
    "Ú" :> "ú" @@
    "Û" :> "û" @@
    "Ü" :> "ü" @@
    "Ý" :> "ý" @@
    "Þ" :> "þ"

\* str.lower() on one character
lower_char(ch) == IF ch \in DOMAIN lower_table THEN lower_table[ch] ELSE ch

RECURSIVE lower(_)
\* str.lower()
lower(s) ==
    IF Len(s) = 0 THEN "" ELSE lower_char(CharAt(s, 1)) \o lower(Tail(s))

\* str.isspace() on one character: tab, line feed, vertical tab, form feed,
\* carriage return, U+001C to U+001F, space, U+0085 and U+00A0
IsSpace(ch) ==
    ch \in {"\t", "\n", "", "\f", "\r", "", "", "", "", " ", "", " "}

RECURSIVE lstrip(_)
lstrip(s) ==
    IF Len(s) > 0 /\ IsSpace(CharAt(s, 1)) THEN lstrip(Tail(s)) ELSE s

RECURSIVE rstrip(_)
rstrip(s) ==
    IF Len(s) > 0 /\ IsSpace(CharAt(s, Len(s)))
    THEN rstrip(SubSeq(s, 1, Len(s) - 1))
    ELSE s

\* str.strip()
strip(s) == rstrip(lstrip(s))

\* Python's  x in y  on strings: x occurs in y at some offset
str_in(x, y) ==
    \E i \in 0..(Len(y) - Len(x)) : SubSeq(y, i + 1, i + Len(x)) = x

(***************************************************************************)
(* SkillMatcher.normalize_skill                                            *)
(***************************************************************************)
\* the alias table, in the dict's insertion order
\* mutant: an alias whose target is an earlier key of the table
replacements_backward_chain ==
    << <<"javascript", "js">>,
       <<"typescript", "javascript">>,
       <<"node.js", "nodejs">>,
       <<"react.js", "react">>,
       <<"vue.js", "vue">>,
       <<"angular.js", "angular">>,
       <<"c++", "cpp">>,
       <<"c#", "csharp">>,
       <<"postgresql", "postgres">>,
       <<"mongodb", "mongo">> >>

replacements ==
    << <<"javascript", "js">>,
       <<"typescript", "ts">>,
       <<"node.js", "nodejs">>,
       <<"react.js", "react">>,
       <<"vue.js", "vue">>,
       <<"angular.js", "angular">>,
       <<"c++", "cpp">>,
       <<"c#", "csharp">>,
       <<"postgresql", "postgres">>,
       <<"mongodb", "mongo">> >>

RECURSIVE apply_replacements(_, _)
\* the for loop over replacements.items(), from entry k on
apply_replacements(normalized, k) ==
    IF k > Len(replacements) THEN normalized
    ELSE IF normalized = replacements[k][1]
         THEN apply_replacements(replacements[k][2], k + 1)
         ELSE apply_replacements(normalized, k + 1)

\* mutant: the alias table is consulted before the whitespace is stripped
normalize_skill_alias_first(skill) ==
    strip(apply_replacements(lower(skill), 1))

normalize_skill(skill) ==
    apply_replacements(strip(lower(skill)), 1)

(***************************************************************************)
(* SkillMatcher.skills_match                                               *)
(***************************************************************************)
\* mutant: only the direct comparison, no substring test
skills_match_exact(skill1, skill2) ==
    LET norm1 == normalize_skill(skill1)
        norm2 == normalize_skill(skill2)
    IN  IF norm1 = norm2 THEN TRUE ELSE FALSE

\* mutant: the substring test in one direction only
skills_match_one_way(skill1, skill2) ==
    LET norm1 == normalize_skill(skill1)
        norm2 == normalize_skill(skill2)
    IN  IF norm1 = norm2 THEN TRUE
        ELSE IF str_in(norm1, norm2) THEN TRUE
        ELSE FALSE

skills_match(skill1, skill2) ==
    LET norm1 == normalize_skill(skill1)
        norm2 == normalize_skill(skill2)
    IN  IF norm1 = norm2 THEN TRUE
        ELSE IF str_in(norm1, norm2) \/ str_in(norm2, norm1) THEN TRUE
        ELSE FALSE

(***************************************************************************)
(* SkillMatcher.find_matched_skills                                        *)
(***************************************************************************)
RECURSIVE scan_resume_no_break(_, _, _, _)
\* mutant: the inner loop without its break
scan_resume_no_break(req_skill, resume_skills, j, acc) ==
    IF j > Len(resume_skills) THEN acc
    ELSE IF skills_match(req_skill, resume_skills[j])
         THEN scan_resume_no_break(req_skill, resume_skills, j + 1,
                  [matched |-> Append(acc.matched, req_skill), found |-> TRUE])
         ELSE scan_resume_no_break(req_skill, resume_skills, j + 1, acc)

RECURSIVE scan_resume_candidate_text(_, _, _, _)
\* mutant: the candidate's label is recorded instead of the required one
scan_resume_candidate_text(req_skill, resume_skills, j, acc) ==
    IF j > Len(resume_skills) THEN acc
    ELSE IF skills_match(req_skill, resume_skills[j])
         THEN [matched |-> Append(acc.matched, resume_skills[j]), found |-> TRUE]
         ELSE scan_resume_candidate_text(req_skill, resume_skills, j + 1, acc)

\* mutant: the scan gives up after the first candidate
scan_resume_first_only(req_skill, resume_skills, j, acc) ==
    IF j > Len(resume_skills) THEN acc
    ELSE IF skills_match(req_skill, resume_skills[j])
         THEN [matched |-> Append(acc.matched, req_skill), found |-> TRUE]
         ELSE acc

\* mutant: no break, and every candidate overwrites the found flag
scan_resume_last_wins(req_skill, resume_skills, j, acc) ==
    IF j > Len(resume_skills) THEN acc
    ELSE LET hit == skills_match(req_skill, resume_skills[Len(resume_skills)])
         IN  [matched |-> IF hit THEN Append(acc.matched, req_skill) ELSE acc.matched,
              found |-> hit]

RECURSIVE scan_resume(_, _, _, _)
\* the inner for loop, from candidate j on; acc holds matched and found
scan_resume(req_skill, resume_skills, j, acc) ==
    IF j > Len(resume_skills) THEN acc
    ELSE IF skills_match(req_skill, resume_skills[j])
         THEN [matched |-> Append(acc.matched, req_skill), found |-> TRUE]
         ELSE scan_resume(req_skill, resume_skills, j + 1, acc)

RECURSIVE scan_required(_, _, _, _, _)
\* the outer for loop, from required skill i on
scan_required(resume_skills, required_skills, i, matched, missing) ==
    IF i > Len(required_skills) THEN <<matched, missing>>
    ELSE LET req_skill == required_skills[i]
             acc == scan_resume(req_skill, resume_skills, 1,
                                [matched |-> matched, found |-> FALSE])
         IN  scan_required(resume_skills, required_skills, i + 1, acc.matched,
                           IF ~acc.found THEN Append(missing, req_skill) ELSE missing)

find_matched_skills(resume_skills, required_skills) ==
    scan_required(resume_skills, required_skills, 1, <<>>, <<>>)

(***************************************************************************)
(* SkillMatcher.calculate_match_percentage                                 *)
(***************************************************************************)
\* The percentage is computed in binary floating point (IEEE 754 double):
\* percentage = (matched_count / total_required) * 100, then round(percentage, 2).
\* A double is kept as [mant, exp]: mant is the sequence of binary digits of
\* the significand, most significant first, and the value is mant * 2^exp.
MANT_DIG == 53

Reverse(s) == [i \in 1..Len(s) |-> s[Len(s) + 1 - i]]

\* the binary digits of the natural number n, least significant first
RECURSIVE bits_of_lsb(_)
bits_of_lsb(n) == IF n = 0 THEN <<>> ELSE <<n % 2>> \o bits_of_lsb(n \div 2)

\* the binary digits of the natural number n, <<>> for 0
bits_of(n) == Reverse(bits_of_lsb(n))

\* the natural number with the binary digits bits
RECURSIVE int_of(_)
int_of(bits) ==
    IF Len(bits) = 0 THEN 0
    ELSE 2 * int_of(SubSeq(bits, 1, Len(bits) - 1)) + bits[Len(bits)]

\* long division: the next count binary digits of r / den, followed by the
\* remainder
RECURSIVE long_division(_, _, _)
long_division(r, den, count) ==
    IF count = 0 THEN <<r>>
    ELSE <<(2 * r) \div den>> \o long_division((2 * r) % den, den, count - 1)

frac_bits(r, den, count) ==
    LET digits == long_division(r, den, count)
    IN  [bits |-> SubSeq(digits, 1, count), rem |-> digits[count + 1]]

\* the number of zero digits of r / den after the binary point, 0 < r < den
RECURSIVE lead_zeros(_, _)
lead_zeros(r, den) == IF 2 * r >= den THEN 0 ELSE 1 + lead_zeros(2 * r, den)

RECURSIVE pow2(_)
pow2(n) == IF n = 0 THEN 1 ELSE 2 * pow2(n - 1)

\* bits + 1
RECURSIVE increment(_)
increment(bits) ==
    IF Len(bits) = 0 THEN <<1>>
    ELSE IF bits[Len(bits)] = 0 THEN SubSeq(bits, 1, Len(bits) - 1) \o <<1>>
    ELSE increment(SubSeq(bits, 1, Len(bits) - 1)) \o <<0>>

\* round to nearest, ties to even: bits * 2^exp (first digit 1, more digits
\* than MANT_DIG; sticky tells that non-zero digits follow bits) as a double
round_to_double(bits, exp, sticky) ==
    LET keep == SubSeq(bits, 1, MANT_DIG)
        rest == SubSeq(bits, MANT_DIG + 1, Len(bits))
        more == sticky \/ \E i \in 2..Len(rest) : rest[i] = 1
        up == rest[1] = 1 /\ (more \/ keep[MANT_DIG] = 1)
        mant == IF up THEN increment(keep) ELSE keep
    IN  IF Len(mant) > MANT_DIG
        THEN [mant |-> SubSeq(mant, 1, MANT_DIG), exp |-> exp + Len(rest) + 1]
        ELSE [mant |-> mant, exp |-> exp + Len(rest)]

\* the double num / den, for 0 < num
float_div(num, den) ==
    LET whole == bits_of(num \div den)
        r == num % den
        z == IF Len(whole) > 0 \/ r = 0 THEN 0 ELSE lead_zeros(r, den)
        count == IF Len(whole) > 0 THEN MANT_DIG + 1 - Len(whole) ELSE MANT_DIG + 1
        tail == frac_bits(r * pow2(z), den, count)
    IN  round_to_double(whole \o tail.bits, 0 - (z + count), tail.rem # 0)

\* lsb * k + carry, digits least significant first
RECURSIVE times_lsb(_, _, _)
times_lsb(lsb, k, carry) ==
    IF Len(lsb) = 0 THEN bits_of_lsb(carry)
    ELSE LET v == lsb[1] * k + carry
         IN  <<v % 2>> \o times_lsb(Tail(lsb), k, v \div 2)

\* bits * k + carry, exactly
times(bits, k, carry) == Reverse(times_lsb(Reverse(bits), k, carry))

\* the double x * 100
float_times_100(x) == round_to_double(times(x.mant, 100, 0), x.exp, FALSE)

\* round(x, 2) in hundredths: the integer nearest to the exact value of
\* x * 100, ties to even
round_hundredths(x) ==
    LET exact == times(x.mant, 100, 0)
        f == 0 - x.exp
        padded == [i \in 1..(f + 1) |-> 0] \o exact
        whole == SubSeq(padded, 1, Len(padded) - f)
        frac == SubSeq(padded, Len(padded) - f + 1, Len(padded))
        more == \E i \in 2..Len(frac) : frac[i] = 1
        up == Len(frac) > 0 /\ frac[1] = 1 /\ (more \/ whole[Len(whole)] = 1)
    IN  int_of(whole) + (IF up THEN 1 ELSE 0)

\* round((num / den) * 100, 2), in hundredths.  The two roundings of the
\* double arithmetic move the value by less than 2^-50 of itself, and a
\* quotient that is not exactly halfway between two hundredths lies at least
\* 1 / (2 * den) hundredths from the halfway point: for den <= 100000 such a
\* quotient rounds to the hundredth nearest to num / den * 100, computed here
\* on integers.  A quotient exactly halfway, or a larger den, is computed as
\* the code computes it, digit by digit.
round2(num, den) ==
    LET whole == num \div den
        r == num % den
        q == (r * 20000) \div den
        halfway == (r * 20000) % den = 0 /\ q % 2 = 1
    IN  IF num = 0 THEN 0
        ELSE IF den > 100000 \/ halfway
        THEN round_hundredths(float_times_100(float_div(num, den)))
        ELSE whole * 10000 + (q + 1) \div 2

\* mutant: the percentage is truncated instead of rounded
calculate_match_percentage_truncated(matched_count, total_required) ==
    IF total_required = 0 THEN 10000
    ELSE (matched_count * 10000) \div total_required

calculate_match_percentage(matched_count, total_required) ==
    IF total_required = 0 THEN 10000
    ELSE round2(matched_count, total_required)

(***************************************************************************)
(* SkillMatcher.match_resume_to_jd                                         *)
(***************************************************************************)
\* mutant: matched nice-to-have skills are counted in the percentage
match_resume_to_jd_nice_counts(resume_skills, required_skills, nice_to_have_skills) ==
    LET req == find_matched_skills(resume_skills, required_skills)
        nice == find_matched_skills(resume_skills, nice_to_have_skills)
    IN  [matched_skills |-> req[1],
         missing_skills |-> req[2],
         matched_nice_to_have |-> nice[1],
         match_percentage |->
             calculate_match_percentage(Len(req[1]) + Len(nice[1]),
                                        Len(required_skills) + Len(nice_to_have_skills))]

\* mutant: the percentage is taken over the candidate's skills
match_resume_to_jd_over_resume(resume_skills, required_skills, nice_to_have_skills) ==
    LET req == find_matched_skills(resume_skills, required_skills)
        nice == find_matched_skills(resume_skills, nice_to_have_skills)
    IN  [matched_skills |-> req[1],
         missing_skills |-> req[2],
         matched_nice_to_have |-> nice[1],
         match_percentage |->
             calculate_match_percentage(Len(req[1]), Len(resume_skills))]

match_resume_to_jd(resume_skills, required_skills, nice_to_have_skills) ==
    LET req == find_matched_skills(resume_skills, required_skills)
        nice == find_matched_skills(resume_skills, nice_to_have_skills)
    IN  [matched_skills |-> req[1],
         missing_skills |-> req[2],
         matched_nice_to_have |-> nice[1],
         match_percentage |->
             calculate_match_percentage(Len(req[1]), Len(required_skills))]

(***************************************************************************)
(* Values shared by the handler's model.                                   *)
(***************************************************************************)
NoResult == [none |-> TRUE]

\* dict.get(key, default)
Get(d, key, default) == IF key \in DOMAIN d THEN d[key] ELSE default

\* str.endswith(suffix)
ends_with(s, suffix) ==
    /\ Len(s) >= Len(suffix)
    /\ SubSeq(s, Len(s) - Len(suffix) + 1, Len(s)) = suffix

RECURSIVE split_lines(_, _)
\* str.split('\n'); cur is what was read of the first line
split_lines(s, cur) ==
    LET breaks == {i \in 1..Len(s) : CharAt(s, i) = "\n"}
        first == CHOOSE i \in breaks : \A j \in breaks : i <= j
    IN  IF breaks = {} THEN <<cur \o s>>
        ELSE <<cur \o SubSeq(s, 1, first - 1)>>
             \o split_lines(SubSeq(s, first + 1, Len(s)), "")

RECURSIVE join_lines(_)
\* '\n'.join(lines)
join_lines(lines) ==
    IF Len(lines) = 0 THEN ""
    ELSE IF Len(lines) = 1 THEN lines[1]
    ELSE lines[1] \o "\n" \o join_lines(Tail(lines))

\* an HTTPException raised by a service
HttpError(status, text) == [ok |-> FALSE, status_code |-> status, detail |-> text]

(***************************************************************************)
(* ResumeParser (app/services/resume_parser.py).  The upload is its file   *)
(* name, the number of bytes read and what pdfplumber makes of the bytes:  *)
(* the texts of the pages, or the message of the exception it raises.      *)
(***************************************************************************)
MAX_PDF_SIZE == 10 * 1024 * 1024
MIN_TEXT_LENGTH == 50

\* ResumeParser._clean_text
clean_text(text) ==
    LET raw == split_lines(text, "")
        stripped == [i \in 1..Len(raw) |-> strip(raw[i])]
        NotBlank(line) == line # ""
    IN  join_lines(SelectSeq(stripped, NotBlank))

RECURSIVE pages_text(_, _)
\* the loop over pdf.pages: text += page_text + "\n" for every non-empty page
pages_text(pages, i) ==
    IF i > Len(pages) THEN ""
    ELSE (IF pages[i] # "" THEN pages[i] \o "\n" ELSE "") \o pages_text(pages, i + 1)

\* the handler of an exception raised by pdfplumber
pdf_error(msg) ==
    LET error_msg == lower(msg)
    IN  IF str_in("password", error_msg) \/ str_in("encrypted", error_msg)
        THEN HttpError(400, "PDF is password-protected or encrypted. Please upload an unprotected PDF.")
        ELSE IF str_in("corrupt", error_msg) \/ str_in("invalid", error_msg)
        THEN HttpError(400, "PDF file appears to be corrupted or invalid. Please try a different file.")
        ELSE HttpError(500, "Failed to read PDF: " \o msg)

\* Starlette keeps an upload in memory up to this many bytes and on disk
\* beyond it
SPOOL_MAX_SIZE == 1024 * 1024

\* await file.read() gives the event loop away: the extension check passed
\* and the upload is on disk, so that it is read in a worker thread.  The
\* read of an upload held in memory returns without yielding.
read_yields(file) == ends_with(file.filename, ".pdf") /\ file.size > SPOOL_MAX_SIZE

\* drop the i-th element
Without(s, i) == SubSeq(s, 1, i - 1) \o SubSeq(s, i + 1, Len(s))

\* ResumeParser.extract_text_from_pdf, from its call to its return
extract_text_from_pdf(file) ==
    IF ~ends_with(file.filename, ".pdf")
    THEN HttpError(400, "Invalid file format. Only PDF files are accepted.")
    ELSE IF file.size = 0
    THEN HttpError(400, "Uploaded PDF file is empty.")
    ELSE IF file.size > MAX_PDF_SIZE
    THEN HttpError(400, "PDF file too large. Maximum size is 10.0MB.")
    ELSE IF file.pdf.kind = "error"
    THEN pdf_error(file.pdf.msg)
    ELSE IF Len(file.pdf.pages) = 0
    THEN HttpError(400, "PDF contains no pages.")
    ELSE LET text == pages_text(file.pdf.pages, 1)
         IN  IF strip(text) = ""
             THEN HttpError(400, "Could not extract text from PDF. The file might be scanned or image-based. Please upload a text-based PDF or use OCR software to convert your resume first.")
             ELSE IF Len(strip(text)) < MIN_TEXT_LENGTH
             THEN HttpError(400, "Resume text is too short (found "
                                 \o ToString(Len(strip(text)))
                                 \o " characters, minimum 50 required). Please ensure the PDF contains a complete resume.")
             ELSE [ok |-> TRUE, text |-> clean_text(text)]

(***************************************************************************)
(* JDParser (app/services/jd_parser.py)                                    *)
(***************************************************************************)
MIN_JD_LENGTH == 50

\* mutant: the length is taken before the whitespace is trimmed
validate_and_clean_untrimmed_length(text) ==
    IF text = ""
    THEN HttpError(400, "Job description is required and must be text.")
    ELSE IF Len(text) < MIN_JD_LENGTH
    THEN HttpError(400, "Job description is too short. Minimum 50 characters required.")
    ELSE [ok |-> TRUE, text |-> strip(text)]

\* JDParser.validate_and_clean
validate_and_clean(text) ==
    IF text = ""
    THEN HttpError(400, "Job description is required and must be text.")
    ELSE LET cleaned_text == strip(text)
         IN  IF Len(cleaned_text) < MIN_JD_LENGTH
             THEN HttpError(400, "Job description is too short. Minimum 50 characters required.")
             ELSE [ok |-> TRUE, text |-> cleaned_text]

(***************************************************************************)
(* LLMService (app/services/llm_service.py).  A reply of the model is an   *)
(* API error with its message, a text json.loads rejects with a            *)
(* JSONDecodeError, a text on which json.loads raises another exception    *)
(* (an integer of more than 4300 digits, nesting beyond the recursion      *)
(* limit), or the parsed JSON value.  A parsed value comes with what       *)
(* json.dump does when the handler writes it to a file of test_output.     *)
(***************************************************************************)
\* LLMService.generate_json: the parsed value, or the Exception raised
generate_json(reply) ==
    IF reply.kind = "api_error"
    THEN [ok |-> FALSE,
          error |-> "LLM generation failed: Gemini API error: " \o reply.msg]
    ELSE IF reply.kind = "bad_json"
    THEN [ok |-> FALSE,
          error |-> "Failed to parse JSON from Gemini. Error: " \o reply.msg
                    \o "\nResponse preview: "
                    \o SubSeq(reply.raw, 1, IF Len(reply.raw) < 300 THEN Len(reply.raw) ELSE 300)]
    ELSE IF reply.kind = "loads_error"
    THEN [ok |-> FALSE, error |-> "LLM generation failed: " \o reply.msg]
    ELSE [ok |-> TRUE, type |-> reply.type, data |-> reply.data, dump |-> reply.dump]

\* LLMService.parse_resume
parse_resume(text, reply) == generate_json(reply)

\* mutant: a failed job extraction falls back to an empty object
parse_job_description_fallback(text, reply) ==
    IF generate_json(reply).ok THEN generate_json(reply)
    ELSE [ok |-> TRUE, type |-> "dict",
          data |-> [required_skills |-> [type |-> "list", value |-> <<>>]],
          dump |-> [ok |-> TRUE]]

\* LLMService.parse_job_description
parse_job_description(text, reply) == generate_json(reply)

\* LLMService.create_final_analysis
create_final_analysis(matching, reply) == generate_json(reply)

(***************************************************************************)
(* analyze_resume (app/api/routes.py)                                      *)
(***************************************************************************)
\* mutant: the job description is validated after the resume's model call
StepOrder_validate_late ==
    <<"extract_text", "parse_resume", "validate_jd", "parse_jd", "match",
      "final_analysis", "construct_response">>

\* the steps of the try block, in the order of the source
StepOrder ==
    <<"extract_text", "validate_jd", "parse_resume", "parse_jd", "match",
      "final_analysis", "construct_response">>

\* the step after s
NextStep(s) ==
    LET i == CHOOSE k \in 1..Len(StepOrder) : StepOrder[k] = s
    IN  IF i = Len(StepOrder) THEN "done" ELSE StepOrder[i + 1]

\* A value of the synthesis reply with its Python type, as json.loads
\* returns it: FinalAnalysis validates the types.  A float is kept in
\* hundredths, a dict as the sequence of its <<key, value>> pairs.
JStr(s) == [type |-> "str", value |-> s]

JInt(n) == [type |-> "int", value |-> n]

JFloat(hundredths) == [type |-> "float", value |-> hundredths]

JBool(b) == [type |-> "bool", value |-> b]

JNone == [type |-> "NoneType", value |-> "None"]

JList(items) == [type |-> "list", value |-> items]

JDict(pairs) == [type |-> "dict", value |-> pairs]

\* repr() of a float given in hundredths: 7500 is 75.0, 10001 is 100.01
float_repr(hundredths) ==
    LET a == IF hundredths < 0 THEN 0 - hundredths ELSE hundredths
        frac == a % 100
    IN  (IF hundredths < 0 THEN "-" ELSE "")
        \o ToString(a \div 100) \o "."
        \o (IF frac % 10 = 0 THEN ToString(frac \div 10)
            ELSE ToString(frac \div 10) \o ToString(frac % 10))

\* the characters up to U+00FF that str.isprintable() rejects and repr()
\* writes as \xNN; tab, line feed and carriage return have escapes of
\* their own
HexEscapes ==
    <<<<"", "\\x01">>, <<"", "\\x02">>, <<"", "\\x03">>,
      <<"", "\\x04">>, <<"", "\\x05">>, <<"", "\\x06">>, <<"", "\\x07">>,
      <<"", "\\x08">>, <<"", "\\x0b">>, <<"", "\\x0c">>, <<"", "\\x0e">>,
      <<"", "\\x0f">>, <<"", "\\x10">>, <<"", "\\x11">>, <<"", "\\x12">>,
      <<"", "\\x13">>, <<"", "\\x14">>, <<"", "\\x15">>, <<"", "\\x16">>,
      <<"", "\\x17">>, <<"", "\\x18">>, <<"", "\\x19">>, <<"", "\\x1a">>,
      <<"", "\\x1b">>, <<"", "\\x1c">>, <<"", "\\x1d">>, <<"", "\\x1e">>,
      <<"", "\\x1f">>, <<"", "\\x7f">>, <<"", "\\x80">>, <<"", "\\x81">>,
      <<"", "\\x82">>, <<"", "\\x83">>, <<"", "\\x84">>, <<"", "\\x85">>,
      <<"", "\\x86">>, <<"", "\\x87">>, <<"", "\\x88">>, <<"", "\\x89">>,
      <<"", "\\x8a">>, <<"", "\\x8b">>, <<"", "\\x8c">>, <<"", "\\x8d">>,
      <<"", "\\x8e">>, <<"", "\\x8f">>, <<"", "\\x90">>, <<"", "\\x91">>,
      <<"", "\\x92">>, <<"", "\\x93">>, <<"", "\\x94">>, <<"", "\\x95">>,
      <<"", "\\x96">>, <<"", "\\x97">>, <<"", "\\x98">>, <<"", "\\x99">>,
      <<"", "\\x9a">>, <<"", "\\x9b">>, <<"", "\\x9c">>, <<"", "\\x9d">>,
      <<"", "\\x9e">>, <<"", "\\x9f">>, <<" ", "\\xa0">>, <<"­", "\\xad">>>>

RECURSIVE escape_chars(_, _)
\* the characters of s as repr() writes them between the quotes
escape_chars(s, quote) ==
    IF Len(s) = 0 THEN ""
    ELSE LET ch == CharAt(s, 1)
             hex == {k \in 1..Len(HexEscapes) : HexEscapes[k][1] = ch}
             out == IF ch = "\\" THEN "\\\\"
                    ELSE IF ch = "\n" THEN "\\n"
                    ELSE IF ch = "\t" THEN "\\t"
                    ELSE IF ch = "\r" THEN "\\r"
                    ELSE IF ch = quote THEN "\\" \o quote
                    ELSE IF hex # {} THEN HexEscapes[CHOOSE k \in hex : TRUE][2]
                    ELSE ch
         IN  out \o escape_chars(SubSeq(s, 2, Len(s)), quote)

\* repr() of a str: single quotes, or double quotes when the text holds a
\* single quote and no double quote
str_repr(s) ==
    LET quote == IF str_in("'", s) /\ ~str_in("\"", s) THEN "\"" ELSE "'"
    IN  quote \o escape_chars(s, quote) \o quote

RECURSIVE join_reprs(_, _)
\* ', '.join(parts)
join_reprs(parts, i) ==
    IF i > Len(parts) THEN ""
    ELSE parts[i] \o (IF i < Len(parts) THEN ", " ELSE "") \o join_reprs(parts, i + 1)

RECURSIVE py_repr(_)
\* repr() of a value of the reply
py_repr(v) ==
    IF v.type = "str" THEN str_repr(v.value)
    ELSE IF v.type = "int" THEN ToString(v.value)
    ELSE IF v.type = "float" THEN float_repr(v.value)
    ELSE IF v.type = "bool" THEN (IF v.value THEN "True" ELSE "False")
    ELSE IF v.type = "NoneType" THEN "None"
    ELSE IF v.type = "list"
    THEN "[" \o join_reprs([i \in 1..Len(v.value) |-> py_repr(v.value[i])], 1) \o "]"
    ELSE "{" \o join_reprs([i \in 1..Len(v.value) |->
                               str_repr(v.value[i][1]) \o ": " \o py_repr(v.value[i][2])], 1)
         \o "}"

\* len(v), or the TypeError of a value that has no length
py_len(v) ==
    IF v.type \in {"str", "list", "dict"}
    THEN [ok |-> TRUE, len |-> Len(v.value)]
    ELSE [ok |-> FALSE, error_type |-> "TypeError",
          error |-> "object of type '" \o v.type \o "' has no len()"]

\* the keys whose values steps 3, 4 and 6 count with len(data.get(key, []))
\* while they build what save_output is given, in order
ResumeCountedKeys == <<"skills", "education", "projects">>

JdCountedKeys == <<"required_skills", "nice_to_have_skills">>

CountedKeys == <<"strengths", "gaps", "improvement_suggestions">>

\* data.get(...) and the len() calls on a parsed reply: the AttributeError
\* of a reply that is no JSON object, else the first TypeError, if any
reply_counts(type, data, keys) ==
    LET bad == {k \in 1..Len(keys) :
                   /\ keys[k] \in DOMAIN data
                   /\ ~py_len(data[keys[k]]).ok}
    IN  IF type # "dict"
        THEN [ok |-> FALSE, error_type |-> "AttributeError",
              error |-> "'" \o type \o "' object has no attribute 'get'"]
        ELSE IF bad = {} THEN [ok |-> TRUE]
        ELSE py_len(data[keys[CHOOSE k \in bad : \A m \in bad : k <= m]])

\* for x in v, on a value that has a length: the characters of a str, the
\* items of a list, the keys of a dict
py_items(v) ==
    IF v.type = "str" THEN [i \in 1..Len(v.value) |-> JStr(CharAt(v.value, i))]
    ELSE IF v.type = "dict" THEN [i \in 1..Len(v.value) |-> JStr(v.value[i][1])]
    ELSE v.value

\* an element of a list of the matching result: a str is kept as its text,
\* any other value with its type
py_value(v) == IF v.type = "str" THEN v.value ELSE v

\* skill.lower() on a value that is no str
no_lower(v) ==
    [ok |-> FALSE, error_type |-> "AttributeError",
     error |-> "'" \o v.type \o "' object has no attribute 'lower'"]

\* skills_match on two values of the replies: normalize_skill is called on
\* the first, then on the second
skills_match_values(skill1, skill2) ==
    IF skill1.type # "str" THEN no_lower(skill1)
    ELSE IF skill2.type # "str" THEN no_lower(skill2)
    ELSE [ok |-> TRUE, match |-> skills_match(skill1.value, skill2.value)]

RECURSIVE scan_resume_values(_, _, _)
\* the inner loop of find_matched_skills on values of the replies
scan_resume_values(req_skill, resume_skills, j) ==
    IF j > Len(resume_skills) THEN [ok |-> TRUE, found |-> FALSE]
    ELSE LET m == skills_match_values(req_skill, resume_skills[j])
         IN  IF ~m.ok THEN m
             ELSE IF m.match THEN [ok |-> TRUE, found |-> TRUE]
             ELSE scan_resume_values(req_skill, resume_skills, j + 1)

RECURSIVE scan_required_values(_, _, _, _, _)
\* the outer loop of find_matched_skills on values of the replies
scan_required_values(resume_skills, required_skills, i, matched, missing) ==
    IF i > Len(required_skills)
    THEN [ok |-> TRUE, matched |-> matched, missing |-> missing]
    ELSE LET req_skill == required_skills[i]
             acc == scan_resume_values(req_skill, resume_skills, 1)
         IN  IF ~acc.ok THEN acc
             ELSE scan_required_values(
                      resume_skills, required_skills, i + 1,
                      IF acc.found THEN Append(matched, py_value(req_skill)) ELSE matched,
                      IF acc.found THEN missing ELSE Append(missing, py_value(req_skill)))

\* step 5: match_resume_to_jd on what the replies held under skills,
\* required_skills and nice_to_have_skills.  Lists of str, and a str or a
\* dict in the place of a list, go through match_resume_to_jd; a value
\* that is no str fails in skill.lower() when the loops reach it.
match_values(resume_skills, required_skills, nice_to_have_skills) ==
    LET c == py_items(resume_skills)
        r == py_items(required_skills)
        n == py_items(nice_to_have_skills)
        AllStr(items) == \A i \in 1..Len(items) : items[i].type = "str"
        texts(items) == [i \in 1..Len(items) |-> items[i].value]
        required == scan_required_values(c, r, 1, <<>>, <<>>)
        nice == scan_required_values(c, n, 1, <<>>, <<>>)
    IN  IF AllStr(c) /\ AllStr(r) /\ AllStr(n)
        THEN [ok |-> TRUE, result |-> match_resume_to_jd(texts(c), texts(r), texts(n))]
        ELSE IF ~required.ok THEN required
        ELSE IF ~nice.ok THEN nice
        ELSE [ok |-> TRUE,
              result |-> [matched_skills |-> required.matched,
                          missing_skills |-> required.missing,
                          matched_nice_to_have |-> nice.matched,
                          match_percentage |->
                              calculate_match_percentage(Len(required.matched), Len(r))]]

\* the release of pydantic named in the text of a ValidationError
PydanticVersion == "2.13"

\* the printable characters from U+0080 to U+00FF: two bytes each in UTF-8,
\* all other characters of a repr take one
TwoByteChars ==
    "¡¢£¤¥¦§¨©ª«¬®¯°±²³´µ¶·¸¹º»¼½¾¿ÀÁÂÃÄÅÆÇÈÉÊËÌÍÎÏÐ"
    \o "ÑÒÓÔÕÖ×ØÙÚÛÜÝÞßàáâãäåæçèéêëìíîïðñòóôõö÷øùúûüýþÿ"

\* the number of bytes of the first n characters of s in UTF-8
utf8_len(s, n) ==
    n + Cardinality({i \in 1..n : \E k \in 1..Len(TwoByteChars) :
                                     CharAt(s, i) = CharAt(TwoByteChars, k)})

\* a repr of more than 50 bytes is shown as the characters that lie within
\* its first 25 bytes, three dots and those within its last 24 bytes
truncate_repr(shown) ==
    LET total == utf8_len(shown, Len(shown))
        head == {i \in 1..Len(shown) : utf8_len(shown, i) <= 25}
        tail == {i \in 1..Len(shown) : utf8_len(shown, i - 1) >= total - 24}
    IN  IF total > 50
        THEN SubSeq(shown, 1, Cardinality(head)) \o "..."
             \o SubSeq(shown, Len(shown) - Cardinality(tail) + 1, Len(shown))
        ELSE shown

\* one line of a pydantic ValidationError
validation_line(loc, type, msg, shown, input_type) ==
    loc \o "\n  " \o msg \o " [type=" \o type \o ", input_value=" \o truncate_repr(shown)
    \o ", input_type=" \o input_type \o "]\n    For further information visit "
    \o "https://errors.pydantic.dev/" \o PydanticVersion \o "/v/" \o type

\* a field declared str
str_errors(loc, v) ==
    IF v.type = "str" THEN <<>>
    ELSE <<validation_line(loc, "string_type", "Input should be a valid string",
                           py_repr(v), v.type)>>

RECURSIVE items_errors(_, _, _)
\* the items of a List[str], from item i on; pydantic counts items from 0
items_errors(loc, items, i) ==
    IF i > Len(items) THEN <<>>
    ELSE str_errors(loc \o "." \o ToString(i - 1), items[i]) \o items_errors(loc, items, i + 1)

\* a field declared List[str]
list_errors(loc, v) ==
    IF v.type = "list" THEN items_errors(loc, v.value, 1)
    ELSE <<validation_line(loc, "list_type", "Input should be a valid list",
                           py_repr(v), v.type)>>

\* a field declared float with ge=0 and le=100, given in hundredths
percentage_errors(loc, hundredths) ==
    IF hundredths < 0
    THEN <<validation_line(loc, "greater_than_equal",
                           "Input should be greater than or equal to 0",
                           float_repr(hundredths), "float")>>
    ELSE IF hundredths > 10000
    THEN <<validation_line(loc, "less_than_equal",
                           "Input should be less than or equal to 100",
                           float_repr(hundredths), "float")>>
    ELSE <<>>

RECURSIVE join_errors(_, _)
join_errors(lines, i) ==
    IF i > Len(lines) THEN "" ELSE "\n" \o lines[i] \o join_errors(lines, i + 1)

\* FinalAnalysis(...): the validated object, or the ValidationError
FinalAnalysis(candidate_summary, match_percentage, strengths, gaps, improvement_suggestions) ==
    LET errors == str_errors("candidate_summary", candidate_summary)
                  \o percentage_errors("match_percentage", match_percentage)
                  \o list_errors("strengths", strengths)
                  \o list_errors("gaps", gaps)
                  \o list_errors("improvement_suggestions", improvement_suggestions)
        texts(v) == [i \in 1..Len(v.value) |-> v.value[i].value]
    IN  IF Len(errors) > 0
        THEN [ok |-> FALSE, error_type |-> "ValidationError",
              error |-> ToString(Len(errors)) \o " validation error"
                        \o (IF Len(errors) = 1 THEN "" ELSE "s")
                        \o " for FinalAnalysis" \o join_errors(errors, 1)]
        ELSE [ok |-> TRUE,
              body |-> [candidate_summary |-> candidate_summary.value,
                        match_percentage |-> match_percentage,
                        strengths |-> texts(strengths),
                        gaps |-> texts(gaps),
                        improvement_suggestions |-> texts(improvement_suggestions)]]

\* the keys FinalAnalysis(...) reads with analysis_data[...], in order
ResponseKeys == <<"candidate_summary", "strengths", "gaps", "improvement_suggestions">>

\* the KeyError of the first key of ResponseKeys that analysis lacks
key_error(analysis) ==
    LET absent == {k \in 1..Len(ResponseKeys) : ResponseKeys[k] \notin DOMAIN analysis}
    IN  [ok |-> FALSE, error_type |-> "KeyError",
         error |-> "'" \o ResponseKeys[CHOOSE k \in absent : \A m \in absent : k <= m] \o "'"]

\* mutant: the percentage of the model's reply is preferred
final_analysis_from_reply(analysis, matching) ==
    IF \E k \in 1..Len(ResponseKeys) : ResponseKeys[k] \notin DOMAIN analysis
    THEN key_error(analysis)
    ELSE FinalAnalysis(analysis["candidate_summary"],
                       IF "match_percentage" \in DOMAIN analysis
                       THEN analysis["match_percentage"].value
                       ELSE matching.match_percentage,
                       analysis["strengths"], analysis["gaps"],
                       analysis["improvement_suggestions"])

\* step 7: FinalAnalysis(...), or the KeyError of the first key that is absent
final_analysis(analysis, matching) ==
    IF \E k \in 1..Len(ResponseKeys) : ResponseKeys[k] \notin DOMAIN analysis
    THEN key_error(analysis)
    ELSE FinalAnalysis(analysis["candidate_summary"], matching.match_percentage,
                       analysis["strengths"], analysis["gaps"],
                       analysis["improvement_suggestions"])

\* except HTTPException: the exception is logged and raised again
http_exception(status, text) ==
    [response |-> [status_code |-> status, detail |-> text],
     log |-> [file |-> "error_log.json", error_type |-> "HTTPException",
              status_code |-> status, detail |-> text]]

\* except Exception: the error is logged and a 500 is raised
unexpected_error(error_type, message) ==
    [response |-> [status_code |-> 500,
                   detail |-> "Unexpected error during analysis: " \o message],
     log |-> [file |-> "error_log.json", error_type |-> error_type,
              error_message |-> message]]

(***************************************************************************)
(* Result cache (specification, sections 3 and 4.3): entries in insertion  *)
(* order, oldest first.                                                    *)
(***************************************************************************)
MaxEntries == 2

\* the key of a job description: a digest of its trimmed text
fingerprint(text) == strip(text)

cache_keys(cache) == [i \in 1..Len(cache) |-> cache[i].key]

cache_has(cache, key) == \E i \in 1..Len(cache) : cache[i].key = key

\* get(key): the value, or absent
cache_get(cache, key) ==
    IF cache_has(cache, key)
    THEN [hit |-> TRUE,
          value |-> cache[CHOOSE i \in 1..Len(cache) : cache[i].key = key].value]
    ELSE [hit |-> FALSE]

\* mutant: a put on a present key moves it to the newest position
cache_put_promote(cache, key, value) ==
    LET IsOther(e) == e.key # key
        others == SelectSeq(cache, IsOther)
    IN  IF Len(others) = MaxEntries
        THEN Append(Tail(others), [key |-> key, value |-> value])
        ELSE Append(others, [key |-> key, value |-> value])

\* put(key, value): overwrite in place, or evict the oldest and append
cache_put(cache, key, value) ==
    IF cache_has(cache, key)
    THEN [i \in 1..Len(cache) |->
             IF cache[i].key = key THEN [key |-> key, value |-> value] ELSE cache[i]]
    ELSE IF Len(cache) = MaxEntries
    THEN Append(Tail(cache), [key |-> key, value |-> value])
    ELSE Append(cache, [key |-> key, value |-> value])

(***************************************************************************)
(* The parts of the state a specification does not use stay as they are    *)
(* here.                                                                   *)
(***************************************************************************)
MatcherIdle ==
    /\ call = NoResult
    /\ pc = "idle"
    /\ ret = NoResult

AnalyzeIdle ==
    /\ request = NoResult
    /\ step = "idle"
    /\ resume_text = ""
    /\ jd_text = ""
    /\ resume_data = NoResult
    /\ jd_data = NoResult
    /\ matching_result = NoResult
    /\ analysis_data = NoResult
    /\ response = NoResult
    /\ failed_at = ""
    /\ llm_calls = <<>>
    /\ saved = <<>>
    /\ served = 0
    /\ suspended = <<>>

CacheEmpty ==
    /\ result_cache = <<>>
    /\ inserted = <<>>

(***************************************************************************)
(* The inputs the matcher is called with.                                  *)
(***************************************************************************)
SeqsUpTo(S, n) == UNION {[1..k -> S] : k \in 0..n}

\* labels for normalize_skill and skills_match
SkillLabels ==
    {"", "  ", "C++", "c++ ", " C# ", "JavaScript", "javascript es6", "js",
     "TypeScript", "Node.js", "nodejs", "React.js", "React", "Vue.js",
     "Angular.js", "PostgreSQL", "MongoDB", "Python", "Python 3", "python",
     "\tJava\n", "Redis"}

\* labels for the lists of find_matched_skills
ListLabels == {"JavaScript", "Node.js", "Redis"}

\* labels for the lists of match_resume_to_jd
JdLabels == {"JavaScript", "Node.js", "React"}

NormalizeCalls == {[op |-> "normalize_skill", skill |-> s] : s \in SkillLabels}

MatchCalls ==
    {[op |-> "skills_match", skill1 |-> a, skill2 |-> b] :
        a \in SkillLabels, b \in SkillLabels}

FindCalls ==
    {[op |-> "find_matched_skills", resume_skills |-> c, required_skills |-> r] :
        c \in SeqsUpTo(ListLabels, MaxResume), r \in SeqsUpTo(ListLabels, MaxRequired)}

\* counts whose quotient lies halfway between two hundredths: the double
\* that the division and the product give decides the direction of round
HalfwayCounts == {<<1, 32>>, <<3, 32>>, <<23, 160>>, <<49, 160>>, <<51, 160>>}

PercentageCalls ==
    {[op |-> "calculate_match_percentage", matched_count |-> m, total_required |-> t] :
        m \in 0..MaxCount, t \in 0..MaxCount}
    \cup {[op |-> "calculate_match_percentage", matched_count |-> c[1],
           total_required |-> c[2]] : c \in HalfwayCounts}

JdCalls ==
    {[op |-> "match_resume_to_jd", resume_skills |-> c, required_skills |-> r,
      nice_to_have_skills |-> n] :
        c \in SeqsUpTo(JdLabels, MaxResume), r \in SeqsUpTo(JdLabels, MaxRequired),
        n \in SeqsUpTo(JdLabels, MaxNice)}

\* the scenarios of the specification's section 8
ScenarioCalls ==
    {[op |-> "match_resume_to_jd", resume_skills |-> <<"JavaScript">>,
      required_skills |-> <<"React", "TypeScript", "Node.js">>,
      nice_to_have_skills |-> <<>>],
     [op |-> "match_resume_to_jd", resume_skills |-> <<"Python", "Django", "AWS">>,
      required_skills |-> <<"Python", "Django", "Redis", "AWS">>,
      nice_to_have_skills |-> <<>>],
     [op |-> "match_resume_to_jd", resume_skills |-> <<"Python", "Django", "AWS">>,
      required_skills |-> <<"Python", "Django", "Redis", "AWS">>,
      nice_to_have_skills |-> <<"AWS", "Docker">>]}

(***************************************************************************)
(* One call of a matcher function: pc goes from "call" to "return".        *)
(***************************************************************************)
Init ==
    /\ call \in NormalizeCalls \cup MatchCalls \cup FindCalls
                \cup PercentageCalls \cup JdCalls \cup ScenarioCalls
    /\ pc = "call"
    /\ ret = NoResult
    /\ AnalyzeIdle
    /\ CacheEmpty

NormalizeSkill ==
    /\ pc = "call"
    /\ call.op = "normalize_skill"
    /\ ret' = normalize_skill(call.skill)
    /\ pc' = "return"
    /\ UNCHANGED <<call, avars, cvars>>

SkillsMatch ==
    /\ pc = "call"
    /\ call.op = "skills_match"
    /\ ret' = skills_match(call.skill1, call.skill2)
    /\ pc' = "return"
    /\ UNCHANGED <<call, avars, cvars>>

FindMatchedSkills ==
    /\ pc = "call"
    /\ call.op = "find_matched_skills"
    /\ ret' = find_matched_skills(call.resume_skills, call.required_skills)
    /\ pc' = "return"
    /\ UNCHANGED <<call, avars, cvars>>

CalculateMatchPercentage ==
    /\ pc = "call"
    /\ call.op = "calculate_match_percentage"
    /\ ret' = calculate_match_percentage(call.matched_count, call.total_required)
    /\ pc' = "return"
    /\ UNCHANGED <<call, avars, cvars>>

MatchResumeToJd ==
    /\ pc = "call"
    /\ call.op = "match_resume_to_jd"
    /\ ret' = match_resume_to_jd(call.resume_skills, call.required_skills,
                                 call.nice_to_have_skills)
    /\ pc' = "return"
    /\ UNCHANGED <<call, avars, cvars>>

Next ==
    \/ NormalizeSkill
    \/ SkillsMatch
    \/ FindMatchedSkills
    \/ CalculateMatchPercentage
    \/ MatchResumeToJd

Spec == Init /\ [][Next]_vars

Returned(op) == pc = "return" /\ call.op = op

(***************************************************************************)
(* The requests and the replies of the model the handler is run with.      *)
(***************************************************************************)
MaxRequests == 2

ResumePage == "Jane Doe\nSoftware engineer, 5 years\nSkills: Python, Django, AWS"

PdfPages(pages) == [kind |-> "pages", pages |-> pages]

PdfError(msg) == [kind |-> "error", msg |-> msg]

Upload(filename, size, pdf) == [filename |-> filename, size |-> size, pdf |-> pdf]

Uploads ==
    {Upload("cv.pdf", 2048, PdfPages(<<ResumePage>>)),
     Upload("cv.docx", 2048, PdfPages(<<ResumePage>>)),
     Upload("cv.pdf", 0, PdfPages(<<>>)),
     Upload("cv.pdf", MAX_PDF_SIZE + 1, PdfPages(<<ResumePage>>)),
     Upload("cv.pdf", 2 * SPOOL_MAX_SIZE, PdfPages(<<ResumePage>>)),
     Upload("cv.pdf", 2048, PdfError("File is encrypted")),
     Upload("cv.pdf", 2048, PdfError("Incorrect Password")),
     Upload("cv.pdf", 2048, PdfError("Invalid PDF header")),
     Upload("cv.pdf", 2048, PdfError("Data corrupt at offset 12")),
     Upload("cv.pdf", 2048, PdfError("No /Root object! - Is this really a PDF?")),
     Upload("cv.pdf", 2048, PdfPages(<<>>)),
     Upload("cv.pdf", 2048, PdfPages(<<"", "">>)),
     Upload("cv.pdf", 2048, PdfPages(<<"Jane Doe", "">>))}

JobDescriptions ==
    {"",
     "   ",
     "Python developer",
     "  Senior Python developer with Django, Redis and AWS experience.\n"}

ApiError(msg) == [kind |-> "api_error", msg |-> msg]

BadJson(msg, raw) == [kind |-> "bad_json", msg |-> msg, raw |-> raw]

\* json.loads raises an exception that is no JSONDecodeError
LoadsError(msg) == [kind |-> "loads_error", msg |-> msg]

\* json.dump writes the parsed reply
Written == [ok |-> TRUE]

\* the reply parses to a JSON object
Json(data) == [kind |-> "json", type |-> "dict", data |-> data, dump |-> Written]

\* the reply parses to a JSON value that is no object
JsonValue(v) == [kind |-> "json", type |-> v.type, data |-> v.value, dump |-> Written]

\* the parsed reply holds, next to the keys of data, a string with a lone
\* surrogate (the escape \udXXX in the reply's text): json.loads accepts
\* it, the UTF-8 encoder of the output file raises msg
Unencodable(reply, msg) ==
    [reply EXCEPT !.dump = [ok |-> FALSE, error_type |-> "UnicodeEncodeError",
                            error |-> msg]]

\* str(e) of the ValueError and of the RecursionError of json.loads
IntTooLong ==
    "Exceeds the limit (4300 digits) for integer string conversion: value has 4301 digits; use sys.set_int_max_str_digits() to increase the limit"

TooDeep ==
    "maximum recursion depth exceeded while decoding a JSON array from a unicode string"

\* the encoder's error for the value "Senior dev " followed by \ud83d
LoneSurrogate ==
    "'utf-8' codec can't encode character '\\ud83d' in position 12: surrogates not allowed"

JTexts(texts) == JList([i \in 1..Len(texts) |-> JStr(texts[i])])

ResumeReplies ==
    {ApiError("quota exceeded"),
     BadJson("Expecting value: line 1 column 1 (char 0)", "Sorry, I cannot"),
     Json([name |-> JStr("Jane Doe"), total_experience_years |-> JInt(5),
           skills |-> JTexts(<<"Python", "Django", "AWS">>),
           education |-> JTexts(<<"BSc">>), projects |-> JList(<<>>)]),
     Json([name |-> JStr("Jane Doe"), total_experience_years |-> JInt(5)]),
     Json([name |-> JStr("Jane Doe"), skills |-> JInt(5)]),
     Json([skills |-> JStr("Go")]),
     Json([skills |-> JList(<<JStr("Python"), JInt(5)>>)]),
     JsonValue(JTexts(<<"Python">>)),
     LoadsError(IntTooLong),
     Unencodable(Json([name |-> JStr("Jane Doe"),
                       skills |-> JTexts(<<"Python", "Django">>)]), LoneSurrogate)}

JdReplies ==
    {ApiError("deadline exceeded"),
     Json([required_skills |-> JTexts(<<"Python", "Django", "Redis", "AWS">>),
           min_experience |-> JInt(3), nice_to_have_skills |-> JTexts(<<"Docker">>)]),
     Json([min_experience |-> JInt(3)]),
     Json([required_skills |-> JInt(3)]),
     Json([required_skills |-> JStr("Py")]),
     LoadsError(TooDeep),
     Unencodable(Json([required_skills |-> JTexts(<<"Python">>)]), LoneSurrogate)}

FullAnalysis ==
    [candidate_summary |-> JStr("Strong backend profile"),
     strengths |-> JList(<<JStr("Python")>>),
     gaps |-> JList(<<JStr("Redis")>>),
     improvement_suggestions |-> JList(<<JStr("Learn Redis")>>)]

AnalysisReplies ==
    {ApiError("quota exceeded"),
     ApiError("deadline exceeded"),
     BadJson("Expecting value: line 1 column 1 (char 0)", "Sorry, I cannot"),
     Json(FullAnalysis),
     Json([match_percentage |-> JFloat(9900)] @@ FullAnalysis),
     Json([k \in {"candidate_summary", "strengths", "gaps"} |-> FullAnalysis[k]]),
     Json([strengths |-> JStr("Python")] @@ FullAnalysis),
     Json([gaps |-> JList(<<JInt(1), JStr("Redis"), JNone>>)] @@ FullAnalysis),
     Json([improvement_suggestions |-> JInt(3)] @@ FullAnalysis),
     LoadsError(IntTooLong),
     Unencodable(Json(FullAnalysis), LoneSurrogate)}

(***************************************************************************)
(* analyze_resume, one statement of its try block per action.  An          *)
(* exception ends the request in the except clause that catches it.        *)
(***************************************************************************)
InitAnalyze ==
    /\ MatcherIdle
    /\ AnalyzeIdle
    /\ CacheEmpty

\* the except clauses, entered after the try block left the files of left
\* behind: log the error, answer, the request is over
RaiseAfter(left, handled) ==
    /\ response' = handled.response
    /\ saved' = saved \o left \o <<handled.log>>
    /\ failed_at' = step
    /\ step' = "done"
    /\ served' = served + 1

\* the except clauses, entered from a statement that opened no file
Raise(handled) == RaiseAfter(<<>>, handled)

\* the record of a file save_output has written in full
Saved(file) == [file |-> file]

\* the record of a file save_output has opened and json.dump has left cut
\* off, before the string it raised on
CutOff(file) == [file |-> file, cut_off |-> TRUE]

\* save_output of the file of a step, whose data holds the parsed reply r:
\* open creates the file, and json.dump writes it, or raises on a string of
\* the reply that the UTF-8 encoder of the file rejects and leaves the file
\* cut off.  The data of the other files (the texts of steps 1 and 2, the
\* matcher's result, the validated payload, the error log) has no such
\* string, and the directory takes every write.
save_output(filename, r) ==
    IF r.dump.ok
    THEN [ok |-> TRUE, file |-> Saved(filename)]
    ELSE [ok |-> FALSE, file |-> CutOff(filename),
          error_type |-> r.dump.error_type, error |-> r.dump.error]

\* the model call of this request, as the model saw it
LlmCall(kind, text, reply) ==
    [req |-> served + 1, kind |-> kind, text |-> text, ok |-> reply.kind = "json"]

\* the locals of a handler that has not yet finished step 1
FreshLocals ==
    /\ resume_text' = ""
    /\ jd_text' = ""
    /\ resume_data' = NoResult
    /\ jd_data' = NoResult
    /\ matching_result' = NoResult
    /\ analysis_data' = NoResult

\* POST /analyze arrives while no handler holds the event loop
Receive ==
    /\ step \in {"idle", "done"}
    /\ served + Len(suspended) < MaxRequests
    /\ \E file \in Uploads, job_description \in JobDescriptions :
           request' = [resume |-> file, job_description |-> job_description]
    /\ step' = StepOrder[1]
    /\ FreshLocals
    /\ response' = NoResult
    /\ failed_at' = ""
    /\ saved' = <<>>
    /\ UNCHANGED <<llm_calls, served, suspended, mvars, cvars>>

\* step 1: resume_parser.extract_text_from_pdf(resume), up to its return
\* or to the await at which the handler gives the event loop away
ExtractText ==
    /\ step = "extract_text"
    /\ IF read_yields(request.resume)
       THEN /\ suspended' = Append(suspended, request)
            /\ request' = NoResult
            /\ step' = "idle"
            /\ UNCHANGED <<resume_text, response, failed_at, saved, served>>
       ELSE /\ LET r == extract_text_from_pdf(request.resume)
               IN  IF r.ok
                   THEN /\ resume_text' = r.text
                        /\ saved' = Append(saved, Saved("1_resume_extracted_text.json"))
                        /\ step' = NextStep(step)
                        /\ UNCHANGED <<response, failed_at, served>>
                   ELSE /\ Raise(http_exception(r.status_code, r.detail))
                        /\ UNCHANGED resume_text
            /\ UNCHANGED <<request, suspended>>
    /\ UNCHANGED <<jd_text, resume_data, jd_data, matching_result,
                   analysis_data, llm_calls, mvars, cvars>>

\* file.read() of a waiting handler returns while no handler holds the
\* event loop: the handler goes on to the end of step 1
ResumeExtractText ==
    /\ step \in {"idle", "done"}
    /\ \E i \in 1..Len(suspended) :
           /\ request' = suspended[i]
           /\ suspended' = Without(suspended, i)
           /\ LET r == extract_text_from_pdf(suspended[i].resume)
                  handled == http_exception(r.status_code, r.detail)
              IN  IF r.ok
                  THEN /\ resume_text' = r.text
                       /\ saved' = <<Saved("1_resume_extracted_text.json")>>
                       /\ step' = NextStep("extract_text")
                       /\ response' = NoResult
                       /\ failed_at' = ""
                       /\ UNCHANGED served
                  ELSE /\ resume_text' = ""
                       /\ response' = handled.response
                       /\ saved' = <<handled.log>>
                       /\ failed_at' = "extract_text"
                       /\ step' = "done"
                       /\ served' = served + 1
    /\ jd_text' = ""
    /\ resume_data' = NoResult
    /\ jd_data' = NoResult
    /\ matching_result' = NoResult
    /\ analysis_data' = NoResult
    /\ UNCHANGED <<llm_calls, mvars, cvars>>

\* step 2: jd_parser.validate_and_clean(job_description)
ValidateJd ==
    /\ step = "validate_jd"
    /\ LET r == validate_and_clean(request.job_description)
       IN  IF r.ok
           THEN /\ jd_text' = r.text
                /\ saved' = Append(saved, Saved("2_jd_cleaned.json"))
                /\ step' = NextStep(step)
                /\ UNCHANGED <<response, failed_at, served>>
           ELSE /\ Raise(http_exception(r.status_code, r.detail))
                /\ UNCHANGED jd_text
    /\ UNCHANGED <<request, resume_text, resume_data, jd_data, matching_result,
                   analysis_data, llm_calls, suspended, mvars,
                   cvars>>

\* step 3: llm_service.parse_resume(resume_text, RESUME_EXTRACTION_PROMPT),
\* then the counts of the reply and save_output of the step's file
ParseResume ==
    /\ step = "parse_resume"
    /\ \E reply \in ResumeReplies :
           LET r == parse_resume(resume_text, reply)
           IN  /\ llm_calls' = Append(llm_calls, LlmCall("parse_resume", resume_text, reply))
               /\ IF r.ok
                  THEN /\ resume_data' = r.data
                       /\ LET counts == reply_counts(r.type, r.data, ResumeCountedKeys)
                              written == save_output("3_llm_resume_extraction.json", r)
                          IN  IF ~counts.ok
                              THEN Raise(unexpected_error(counts.error_type, counts.error))
                              ELSE IF ~written.ok
                              THEN RaiseAfter(<<written.file>>,
                                              unexpected_error(written.error_type,
                                                               written.error))
                              ELSE /\ saved' = Append(saved, written.file)
                                   /\ step' = NextStep(step)
                                   /\ UNCHANGED <<response, failed_at, served>>
                  ELSE /\ Raise(unexpected_error("Exception", r.error))
                       /\ UNCHANGED resume_data
    /\ UNCHANGED <<request, resume_text, jd_text, jd_data, matching_result,
                   analysis_data, suspended, mvars,
                   cvars>>

\* step 4: llm_service.parse_job_description(jd_text, JD_ANALYSIS_PROMPT),
\* then the counts of the reply and save_output of the step's file
ParseJd ==
    /\ step = "parse_jd"
    /\ \E reply \in JdReplies :
           LET r == parse_job_description(jd_text, reply)
           IN  /\ llm_calls' = Append(llm_calls,
                                      LlmCall("parse_job_description", jd_text, reply))
               /\ IF r.ok
                  THEN /\ jd_data' = r.data
                       /\ LET counts == reply_counts(r.type, r.data, JdCountedKeys)
                              written == save_output("4_llm_jd_extraction.json", r)
                          IN  IF ~counts.ok
                              THEN Raise(unexpected_error(counts.error_type, counts.error))
                              ELSE IF ~written.ok
                              THEN RaiseAfter(<<written.file>>,
                                              unexpected_error(written.error_type,
                                                               written.error))
                              ELSE /\ saved' = Append(saved, written.file)
                                   /\ step' = NextStep(step)
                                   /\ UNCHANGED <<response, failed_at, served>>
                  ELSE /\ Raise(unexpected_error("Exception", r.error))
                       /\ UNCHANGED jd_data
    /\ UNCHANGED <<request, resume_text, jd_text, resume_data, matching_result,
                   analysis_data, suspended, mvars,
                   cvars>>

\* step 5: skill_matcher.match_resume_to_jd(...)
MatchSkills ==
    /\ step = "match"
    /\ LET r == match_values(Get(resume_data, "skills", JList(<<>>)),
                             Get(jd_data, "required_skills", JList(<<>>)),
                             Get(jd_data, "nice_to_have_skills", JList(<<>>)))
       IN  IF r.ok
           THEN /\ matching_result' = r.result
                /\ saved' = Append(saved, Saved("5_skill_matching_results.json"))
                /\ step' = NextStep(step)
                /\ UNCHANGED <<response, failed_at, served>>
           ELSE /\ Raise(unexpected_error(r.error_type, r.error))
                /\ UNCHANGED matching_result
    /\ UNCHANGED <<request, resume_text, jd_text, resume_data, jd_data,
                   analysis_data, llm_calls, suspended, mvars, cvars>>

\* step 6: llm_service.create_final_analysis(...), then the counts of the
\* reply and save_output of the step's file
CreateFinalAnalysis ==
    /\ step = "final_analysis"
    /\ \E reply \in AnalysisReplies :
           LET r == create_final_analysis(matching_result, reply)
           IN  /\ llm_calls' = Append(llm_calls,
                                      LlmCall("create_final_analysis", "", reply))
               /\ IF r.ok
                  THEN /\ analysis_data' = r.data
                       /\ LET counts == reply_counts(r.type, r.data, CountedKeys)
                              written == save_output("6_llm_final_analysis.json", r)
                          IN  IF ~counts.ok
                              THEN Raise(unexpected_error(counts.error_type, counts.error))
                              ELSE IF ~written.ok
                              THEN RaiseAfter(<<written.file>>,
                                              unexpected_error(written.error_type,
                                                               written.error))
                              ELSE /\ saved' = Append(saved, written.file)
                                   /\ step' = NextStep(step)
                                   /\ UNCHANGED <<response, failed_at, served>>
                  ELSE /\ Raise(unexpected_error("Exception", r.error))
                       /\ UNCHANGED analysis_data
    /\ UNCHANGED <<request, resume_text, jd_text, resume_data, jd_data,
                   matching_result, suspended, mvars,
                   cvars>>

\* step 7: FinalAnalysis(...) is built, saved and returned
ConstructResponse ==
    /\ step = "construct_response"
    /\ LET r == final_analysis(analysis_data, matching_result)
       IN  IF r.ok
           THEN /\ response' = [status_code |-> 200, body |-> r.body]
                /\ saved' = saved \o <<Saved("7_final_api_response.json"),
                                       Saved("0_complete_summary.json")>>
                /\ step' = NextStep(step)
                /\ served' = served + 1
                /\ UNCHANGED failed_at
           ELSE Raise(unexpected_error(r.error_type, r.error))
    /\ UNCHANGED <<request, resume_text, jd_text, resume_data, jd_data,
                   matching_result, analysis_data, llm_calls, suspended, mvars,
                   cvars>>

NextAnalyze ==
    \/ Receive
    \/ ExtractText
    \/ ResumeExtractText
    \/ ValidateJd
    \/ ParseResume
    \/ ParseJd
    \/ MatchSkills
    \/ CreateFinalAnalysis
    \/ ConstructResponse

SpecAnalyze == InitAnalyze /\ [][NextAnalyze]_vars

(***************************************************************************)
(* The result cache on its own: get and put with keys and values from      *)
(* small sets.  call and ret hold the operation and what it returned.      *)
(***************************************************************************)
MaxInserts == 4

CacheKeys == {"k1", "k2", "k3", "k4"}

CacheValues == {"v1", "v2"}

InitCache ==
    /\ MatcherIdle
    /\ AnalyzeIdle
    /\ CacheEmpty

CacheGet ==
    /\ \E key \in CacheKeys :
           /\ call' = [op |-> "get", key |-> key]
           /\ ret' = cache_get(result_cache, key)
    /\ UNCHANGED <<pc, avars, cvars>>

CachePut ==
    /\ \E key \in CacheKeys, value \in CacheValues :
           /\ cache_has(result_cache, key) \/ Len(inserted) < MaxInserts
           /\ call' = [op |-> "put", key |-> key, value |-> value,
                       present |-> cache_has(result_cache, key)]
           /\ result_cache' = cache_put(result_cache, key, value)
           /\ inserted' = IF cache_has(result_cache, key) THEN inserted
                          ELSE Append(inserted, key)
    /\ ret' = NoResult
    /\ UNCHANGED <<pc, avars>>

NextCache ==
    \/ CacheGet
    \/ CachePut

SpecCache == InitCache /\ [][NextCache]_vars

(***************************************************************************)
(* find_matched_skills on its own: one call with the lists of FindCalls.   *)
(***************************************************************************)
InitFind ==
    /\ call \in FindCalls
    /\ pc = "call"
    /\ ret = NoResult
    /\ AnalyzeIdle
    /\ CacheEmpty

NextFind == FindMatchedSkills

SpecFind == InitFind /\ [][NextFind]_vars

(***************************************************************************)
(* The two input checks on their own: one call of validate_and_clean or of *)
(* extract_text_from_pdf, with the argument drawn from texts around the    *)
(* minimum lengths and uploads of up to MaxPages pages.                    *)
(***************************************************************************)
MaxPages == 2

JdBase == "Backend engineer: Python, Django, Redis, AWS; 3 yrs"

Blanks == "                                        "

JdBodies ==
    {SubSeq(JdBase, 1, n) :
        n \in {0, 1, MIN_JD_LENGTH - 1, MIN_JD_LENGTH, MIN_JD_LENGTH + 1}}
    \cup {"Python" \o Blanks \o "Django", Blanks \o "\t\n        "}

Pads == {"", " ", "\n\t  "}

ValidateCalls ==
    {[op |-> "validate_and_clean", jd_text |-> l \o b \o r] :
        l \in Pads, b \in JdBodies, r \in Pads}

PageTexts ==
    {"", "Jane Doe", "Skills: Python, Django, AWS",
     "Jane" \o SubSeq(Blanks, 1, 20) \o "\n" \o "Python"}

ExtractCalls ==
    {[op |-> "extract_text_from_pdf", file |-> f] :
        f \in Uploads \cup {Upload("cv.pdf", 2048, PdfPages(p)) :
                               p \in SeqsUpTo(PageTexts, MaxPages)}}

MaxCalls == 2

InitParsers ==
    /\ call \in ValidateCalls \cup ExtractCalls
    /\ pc = "call"
    /\ ret = NoResult
    /\ AnalyzeIdle
    /\ CacheEmpty

ValidateAndClean ==
    /\ pc = "call"
    /\ call.op = "validate_and_clean"
    /\ ret' = validate_and_clean(call.jd_text)
    /\ pc' = "return"
    /\ served' = served + 1
    /\ UNCHANGED <<call, request, step, resume_text, jd_text, resume_data,
                   jd_data, matching_result, analysis_data, response,
                   failed_at, llm_calls, saved, suspended, cvars>>

\* the coroutine runs to its return, or to the await at which it gives the
\* event loop away
ExtractTextFromPdf ==
    /\ pc = "call"
    /\ call.op = "extract_text_from_pdf"
    /\ IF read_yields(call.file)
       THEN /\ suspended' = Append(suspended, call)
            /\ pc' = "await"
            /\ UNCHANGED <<ret, served>>
       ELSE /\ ret' = extract_text_from_pdf(call.file)
            /\ pc' = "return"
            /\ served' = served + 1
            /\ UNCHANGED suspended
    /\ UNCHANGED <<call, request, step, resume_text, jd_text, resume_data,
                   jd_data, matching_result, analysis_data, response,
                   failed_at, llm_calls, saved, cvars>>

\* while a coroutine waits for its file, the event loop runs another call
CallWhileSuspended ==
    /\ pc \in {"await", "return"}
    /\ suspended # <<>>
    /\ served + Len(suspended) < MaxCalls
    /\ call' \in ValidateCalls \cup ExtractCalls
    /\ pc' = "call"
    /\ ret' = NoResult
    /\ UNCHANGED <<avars, cvars>>

\* file.read() of a waiting coroutine returns: it runs on to its return
ResumeExtractTextFromPdf ==
    /\ pc \in {"await", "return"}
    /\ \E i \in 1..Len(suspended) :
           /\ call' = suspended[i]
           /\ suspended' = Without(suspended, i)
           /\ ret' = extract_text_from_pdf(suspended[i].file)
    /\ pc' = "return"
    /\ served' = served + 1
    /\ UNCHANGED <<request, step, resume_text, jd_text, resume_data, jd_data,
                   matching_result, analysis_data, response, failed_at,
                   llm_calls, saved, cvars>>

NextParsers ==
    \/ ValidateAndClean
    \/ ExtractTextFromPdf
    \/ CallWhileSuspended
    \/ ResumeExtractTextFromPdf

SpecParsers == InitParsers /\ [][NextParsers]_vars

(***************************************************************************)
(* Helpers of the properties.                                              *)
(***************************************************************************)
Range(s) == {s[i] : i \in 1..Len(s)}

\* number of positions of s holding v
Count(s, v) == Cardinality({i \in 1..Len(s) : s[i] = v})

RECURSIVE IsSubsequence(_, _)
\* s is obtained from t by deleting elements, order kept
IsSubsequence(s, t) ==
    IF Len(s) = 0 THEN TRUE
    ELSE IF Len(t) = 0 THEN FALSE
    ELSE IF Head(s) = Head(t) THEN IsSubsequence(Tail(s), Tail(t))
    ELSE IsSubsequence(s, Tail(t))

\* x is a non-empty contiguous part of y
IsNonEmptySubstring(x, y) ==
    \E i \in 1..Len(y) : \E j \in i..Len(y) : SubSeq(y, i, j) = x

\* the reorderings of s
Reorderings(s) ==
    {t \in [1..Len(s) -> Range(s)] : \A v \in Range(s) : Count(t, v) = Count(s, v)}

AliasKeys == {replacements[k][1] : k \in 1..Len(replacements)}

AliasTarget(key) ==
    replacements[CHOOSE k \in 1..Len(replacements) : replacements[k][1] = key][2]

Abs(n) == IF n < 0 THEN -n ELSE n

(***************************************************************************)
(* C1: for candidate skills ["JavaScript"], required skills                *)
(* ["React","TypeScript","Node.js"] and no nice-to-have skills,            *)
(* match_resume_to_jd returns matched = [], missing = all three required   *)
(* skills and percentage 0.0.                                              *)
(***************************************************************************)
C1_ScenarioNoMatch ==
    ( /\ Returned("match_resume_to_jd")
      /\ call.resume_skills = <<"JavaScript">>
      /\ call.required_skills = <<"React", "TypeScript", "Node.js">>
      /\ call.nice_to_have_skills = <<>> )
    => /\ ret.matched_skills = <<>>
       /\ ret.missing_skills = <<"React", "TypeScript", "Node.js">>
       /\ ret.match_percentage = 0

(***************************************************************************)
(* C2: skills_match(a, b) is false whenever exactly one of normalize(a),   *)
(* normalize(b) is the empty string.                                       *)
(***************************************************************************)
C2_EmptyNeverMatches ==
    ( /\ Returned("skills_match")
      /\ (normalize_skill(call.skill1) = "") # (normalize_skill(call.skill2) = "") )
    => ret = FALSE

(***************************************************************************)
(* C3: find_matched_skills(C, R) returns (matched, missing) with           *)
(* len(matched) + len(missing) = len(R); every position of R contributes   *)
(* its label to exactly one of the two lists, duplicates kept; both lists  *)
(* are subsequences of R; no label occurs in both lists.                   *)
(***************************************************************************)
C3_Partition ==
    Returned("find_matched_skills") =>
        LET R == call.required_skills
            matched == ret[1]
            missing == ret[2]
        IN  /\ Len(matched) + Len(missing) = Len(R)
            /\ \A v \in Range(R) \cup Range(matched) \cup Range(missing) :
                   Count(matched, v) + Count(missing, v) = Count(R, v)
            /\ IsSubsequence(matched, R)
            /\ IsSubsequence(missing, R)
            /\ Range(matched) \cap Range(missing) = {}

C3_Witness ==
    /\ Returned("find_matched_skills")
    /\ Len(ret[1]) > 0
    /\ Len(ret[2]) > 0
    /\ \E i \in 1..Len(call.required_skills) : \E j \in 1..Len(call.required_skills) :
           i < j /\ call.required_skills[i] = call.required_skills[j]

(***************************************************************************)
(* C4: a required skill is in matched exactly when some candidate skill    *)
(* satisfies skills_match with it, otherwise in missing; the label         *)
(* recorded is the required skill's original text.                         *)
(***************************************************************************)
C4_MatchedIffSomeCandidate ==
    Returned("find_matched_skills") =>
        LET C == call.resume_skills
            R == call.required_skills
            HasCandidate(r) == \E j \in 1..Len(C) : skills_match(r, C[j])
            NoCandidate(r) == ~HasCandidate(r)
        IN  /\ ret[1] = SelectSeq(R, HasCandidate)
            /\ ret[2] = SelectSeq(R, NoCandidate)

C4_Witness ==
    /\ Returned("find_matched_skills")
    /\ Len(ret[2]) > 0
    /\ \E i \in 1..Len(call.required_skills) : \E j \in 1..Len(call.resume_skills) :
           /\ skills_match(call.required_skills[i], call.resume_skills[j])
           /\ call.required_skills[i] # call.resume_skills[j]
           /\ call.required_skills[i] # normalize_skill(call.required_skills[i])
           /\ call.required_skills[i] \in Range(ret[1])
           /\ call.resume_skills[j] \notin Range(ret[1])

(***************************************************************************)
(* C5: for labels whose normalized forms are both non-empty,               *)
(* skills_match(a, b) = skills_match(b, a).                                *)
(***************************************************************************)
C5_Symmetric ==
    ( /\ Returned("skills_match")
      /\ normalize_skill(call.skill1) # ""
      /\ normalize_skill(call.skill2) # "" )
    => ret = skills_match(call.skill2, call.skill1)

C5_Witness ==
    /\ Returned("skills_match")
    /\ ret = TRUE
    /\ normalize_skill(call.skill1) # ""
    /\ normalize_skill(call.skill2) # ""
    /\ Len(normalize_skill(call.skill1)) < Len(normalize_skill(call.skill2))

(***************************************************************************)
(* C6: for labels with non-empty normalized forms, skills_match is true    *)
(* when the normalized forms are equal or one is a substring of the other  *)
(* ("Python" and "Python 3"), and false otherwise.                         *)
(***************************************************************************)
C6_EqualOrSubstring ==
    ( /\ Returned("skills_match")
      /\ normalize_skill(call.skill1) # ""
      /\ normalize_skill(call.skill2) # "" )
    => LET n1 == normalize_skill(call.skill1)
           n2 == normalize_skill(call.skill2)
       IN  /\ ret = (n1 = n2 \/ IsNonEmptySubstring(n1, n2) \/ IsNonEmptySubstring(n2, n1))
           /\ (call.skill1 = "Python" /\ call.skill2 = "Python 3") => ret = TRUE

C6_Witness ==
    /\ Returned("skills_match")
    /\ call.skill1 = "Python"
    /\ call.skill2 = "Python 3"
    /\ ret = TRUE

(***************************************************************************)
(* C7: normalize_skill lower-cases and trims the label, then replaces it   *)
(* by the canonical form only if the whole value equals an alias key;      *)
(* normalize("C++") = normalize("c++ ") = "cpp"; a label that only         *)
(* contains an alias key keeps its lower-cased trimmed text; the result is *)
(* a string, the empty string for empty or whitespace-only input.          *)
(***************************************************************************)
C7_Normalize ==
    Returned("normalize_skill") =>
        LET t == strip(lower(call.skill))
        IN  /\ ret = IF t \in AliasKeys THEN AliasTarget(t) ELSE t
            /\ call.skill \in {"C++", "c++ "} => ret = "cpp"
            /\ call.skill = "javascript es6" => ret = "javascript es6"
            /\ call.skill = "\tJava\n" => ret = "java"
            /\ call.skill \in {"", "  "} => ret = ""
            /\ ret \in STRING

C7_Witness ==
    /\ Returned("normalize_skill")
    /\ call.skill = "c++ "
    /\ ret = "cpp"

(***************************************************************************)
(* C8: the result of find_matched_skills depends only on the set of        *)
(* candidate skills: permuting the candidates or repeating one of them     *)
(* leaves matched and missing unchanged.                                   *)
(***************************************************************************)
C8_CandidateOrderIrrelevant ==
    Returned("find_matched_skills") =>
        LET C == call.resume_skills
            R == call.required_skills
        IN  /\ \A c2 \in Reorderings(C) : find_matched_skills(c2, R) = ret
            /\ \A x \in Range(C) :
                   /\ find_matched_skills(Append(C, x), R) = ret
                   /\ find_matched_skills(<<x>> \o C, R) = ret

C8_Witness ==
    /\ Returned("find_matched_skills")
    /\ Len(call.resume_skills) = 2
    /\ call.resume_skills[1] # call.resume_skills[2]
    /\ Len(ret[1]) > 0
    /\ \E i \in 1..Len(call.required_skills) :
           /\ ~skills_match(call.required_skills[i], call.resume_skills[1])
           /\ skills_match(call.required_skills[i], call.resume_skills[2])

(***************************************************************************)
(* C9: calculate_match_percentage(matched, total) is 100.0 when total = 0  *)
(* and otherwise matched / total * 100 rounded to two decimal places;      *)
(* (0,0) gives 100.0, (3,4) gives 75.0 and (1,3) gives 33.33.              *)
(***************************************************************************)
C9_Percentage ==
    Returned("calculate_match_percentage") =>
        LET m == call.matched_count
            t == call.total_required
        IN  /\ t = 0 => ret = 10000
            /\ t # 0 => 2 * Abs(ret * t - m * 10000) <= t
            /\ (m = 0 /\ t = 0) => ret = 10000
            /\ (m = 3 /\ t = 4) => ret = 7500
            /\ (m = 1 /\ t = 3) => ret = 3333

C9_Witness ==
    /\ Returned("calculate_match_percentage")
    /\ call.matched_count = 1
    /\ call.total_required = 3
    /\ ret = 3333

(***************************************************************************)
(* C10: the match_percentage returned by match_resume_to_jd lies in        *)
(* [0, 100] for all candidate, required and nice-to-have lists.            *)
(***************************************************************************)
C10_PercentageInRange ==
    Returned("match_resume_to_jd") =>
        /\ ret.match_percentage >= 0
        /\ ret.match_percentage <= 10000

C10_Witness ==
    /\ Returned("match_resume_to_jd")
    /\ ret.match_percentage > 0
    /\ ret.match_percentage < 10000
    /\ Len(call.resume_skills) < Len(ret.matched_skills)

(***************************************************************************)
(* C11: match_resume_to_jd(C, R, N) returns matched and missing of         *)
(* find_matched_skills(C, R), the matched part of find_matched_skills(C,   *)
(* N) and calculate_match_percentage(len(matched), len(R)); matched,       *)
(* missing and the percentage are the same for every nice-to-have list N;  *)
(* C = [Python, Django, AWS], R = [Python, Django, Redis, AWS] gives       *)
(* matched = [Python, Django, AWS], missing = [Redis] and 75.0.            *)
(***************************************************************************)
C11_Composition ==
    Returned("match_resume_to_jd") =>
        LET C == call.resume_skills
            R == call.required_skills
            N == call.nice_to_have_skills
            found == find_matched_skills(C, R)
        IN  /\ ret.matched_skills = found[1]
            /\ ret.missing_skills = found[2]
            /\ ret.matched_nice_to_have = find_matched_skills(C, N)[1]
            /\ ret.match_percentage =
                   calculate_match_percentage(Len(found[1]), Len(R))
            /\ ( C = <<"Python", "Django", "AWS">>
                 /\ R = <<"Python", "Django", "Redis", "AWS">> )
               => /\ ret.matched_skills = <<"Python", "Django", "AWS">>
                  /\ ret.missing_skills = <<"Redis">>
                  /\ ret.match_percentage = 7500

C11_Witness ==
    /\ Returned("match_resume_to_jd")
    /\ call.resume_skills = <<"Python", "Django", "AWS">>
    /\ call.required_skills = <<"Python", "Django", "Redis", "AWS">>
    /\ call.nice_to_have_skills = <<"AWS", "Docker">>
    /\ ret.matched_nice_to_have = <<"AWS">>
    /\ ret.match_percentage = 7500

(***************************************************************************)
(* Helpers of the handler's properties.                                    *)
(***************************************************************************)
\* the number of the request being served, or of the one just answered
ReqNo == IF step = "done" THEN served ELSE served + 1

\* positions in llm_calls of the calls of request n
CallsOf(n) == {i \in 1..Len(llm_calls) : llm_calls[i].req = n}

LlmSteps == {"parse_resume", "parse_jd", "final_analysis"}

(***************************************************************************)
(* C12: the match_percentage of the final /analyze response equals the     *)
(* value the skill matcher computes from the extracted skill lists; the    *)
(* synthesis reply cannot change it.                                       *)
(***************************************************************************)
C12_PercentageIsLocal ==
    (step = "done" /\ response.status_code = 200) =>
        response.body.match_percentage =
            match_values(Get(resume_data, "skills", JList(<<>>)),
                         Get(jd_data, "required_skills", JList(<<>>)),
                         Get(jd_data, "nice_to_have_skills", JList(<<>>))).result.match_percentage

C12_Witness ==
    /\ step = "done"
    /\ response.status_code = 200
    /\ "match_percentage" \in DOMAIN analysis_data
    /\ analysis_data["match_percentage"].value # response.body.match_percentage
    /\ response.body.match_percentage = 7500

(***************************************************************************)
(* C13: within one request, once a model call fails no further model call  *)
(* is issued (no retry, no later step) and the request ends with a single  *)
(* error response; the synthesis call is issued only after both            *)
(* extraction calls succeeded; no partial result is returned.              *)
(***************************************************************************)
C13_AbortOnFailedCall ==
    /\ \A i \in 1..Len(llm_calls) : \A j \in 1..Len(llm_calls) :
           (i < j /\ llm_calls[i].req = llm_calls[j].req)
           => /\ llm_calls[i].ok
              /\ llm_calls[i].kind # llm_calls[j].kind
    /\ \A j \in 1..Len(llm_calls) :
           llm_calls[j].kind = "create_final_analysis"
           => /\ \E i \in 1..(j - 1) :
                     /\ llm_calls[i].req = llm_calls[j].req
                     /\ llm_calls[i].kind = "parse_resume"
                     /\ llm_calls[i].ok
              /\ \E i \in 1..(j - 1) :
                     /\ llm_calls[i].req = llm_calls[j].req
                     /\ llm_calls[i].kind = "parse_job_description"
                     /\ llm_calls[i].ok
    /\ \A i \in 1..Len(llm_calls) : ~llm_calls[i].ok => llm_calls[i].req <= served
    /\ (step = "done" /\ \E i \in CallsOf(served) : ~llm_calls[i].ok)
       => /\ response.status_code >= 400
          /\ "body" \notin DOMAIN response
    /\ step # "done" => response = NoResult

\* the job extraction of the second request fails on an exception of
\* json.loads that is no JSONDecodeError, after a first request of three calls
C13_Witness ==
    /\ step = "done"
    /\ failed_at = "parse_jd"
    /\ Cardinality(CallsOf(served)) = 2
    /\ \E i \in CallsOf(served) :
           llm_calls[i].kind = "parse_job_description" /\ ~llm_calls[i].ok
    /\ response.status_code = 500
    /\ response.detail = "Unexpected error during analysis: LLM generation failed: " \o TooDeep
    /\ served = 2
    /\ Cardinality(CallsOf(1)) = 3

(***************************************************************************)
(* C14: every InvalidInput failure (bad file type, empty upload, oversized *)
(* upload, job text below the minimum length) and every ExtractionFailure  *)
(* (PDF unreadable, encrypted, no text, too-short text) is answered with a *)
(* client-error (4xx) status, never a server-error status.                 *)
(***************************************************************************)
C14_ClientErrorStatus ==
    (step = "done" /\ failed_at \in {"extract_text", "validate_jd"})
    => (response.status_code >= 400 /\ response.status_code <= 499)

(***************************************************************************)
(* C15: every UpstreamFailure (model call error or unparseable JSON reply) *)
(* and every InternalError is answered with a server-error (5xx) status    *)
(* and a generic message: the text of the underlying error is in the       *)
(* logged detail only, not in the response detail.                         *)
(***************************************************************************)
C15_GenericServerError ==
    (step = "done" /\ failed_at \in LlmSteps \cup {"match", "construct_response"})
    => /\ response.status_code >= 500
       /\ response.status_code <= 599
       /\ ~str_in(saved[Len(saved)].error_message, response.detail)

(***************************************************************************)
(* C16: when every model reply of a request parses as a JSON object whose  *)
(* keys, where present, hold values of the expected types, a missing key   *)
(* does not fail the request: the default is used at each of the three     *)
(* call sites and the request returns the final payload.                   *)
(***************************************************************************)
IsStr(v) == v.type = "str"

IsList(v) == v.type = "list"

ListOfStr(v) == v.type = "list" /\ \A i \in 1..Len(v.value) : v.value[i].type = "str"

IfPresent(data, key, Typed(_)) == key \in DOMAIN data => Typed(data[key])

\* no key of the three replies holds a value of an unexpected type
WellTypedReplies ==
    /\ IfPresent(resume_data, "skills", ListOfStr)
    /\ IfPresent(resume_data, "education", IsList)
    /\ IfPresent(resume_data, "projects", IsList)
    /\ IfPresent(jd_data, "required_skills", ListOfStr)
    /\ IfPresent(jd_data, "nice_to_have_skills", ListOfStr)
    /\ IfPresent(analysis_data, "candidate_summary", IsStr)
    /\ IfPresent(analysis_data, "strengths", ListOfStr)
    /\ IfPresent(analysis_data, "gaps", ListOfStr)
    /\ IfPresent(analysis_data, "improvement_suggestions", ListOfStr)

C16_MissingKeysDefaulted ==
    ( /\ step = "done"
      /\ Cardinality(CallsOf(served)) = 3
      /\ \A i \in CallsOf(served) : llm_calls[i].ok
      /\ WellTypedReplies )
    => response.status_code = 200

(***************************************************************************)
(* C17: a request rejected by the upload validation, the text extraction   *)
(* or the job-description validation gets no model call: both complete     *)
(* before the first model call of the request.                             *)
(***************************************************************************)
C17_ValidationBeforeModel ==
    /\ CallsOf(ReqNo) # {}
       => /\ extract_text_from_pdf(request.resume).ok
          /\ resume_text = extract_text_from_pdf(request.resume).text
          /\ validate_and_clean(request.job_description).ok
          /\ jd_text = validate_and_clean(request.job_description).text
    /\ (step = "done" /\ failed_at \in {"extract_text", "validate_jd"})
       => CallsOf(served) = {}

C17_Witness ==
    /\ step = "done"
    /\ failed_at = "validate_jd"
    /\ response.status_code = 400
    /\ extract_text_from_pdf(request.resume).ok
    /\ CallsOf(served) = {}

(***************************************************************************)
(* C18: a request whose job description is already in the result cache     *)
(* gets no job-extraction call; a job-extraction call is issued only on a  *)
(* cache miss.  A job description extracted with success by the previous   *)
(* request is in the cache.                                                *)
(***************************************************************************)
C18_NoJobCallOnHit ==
    \A i \in 1..Len(llm_calls) : \A j \in 1..Len(llm_calls) :
        ~ ( /\ llm_calls[i].kind = "parse_job_description"
            /\ llm_calls[i].ok
            /\ llm_calls[j].kind = "parse_job_description"
            /\ llm_calls[j].req = llm_calls[i].req + 1
            /\ fingerprint(llm_calls[j].text) = fingerprint(llm_calls[i].text) )

(***************************************************************************)
(* C19: the result cache never holds more than its maximum number of       *)
(* entries; after MAX+1 distinct keys were inserted it holds MAX entries,  *)
(* the first key is absent and the others are retrievable; an eviction     *)
(* removes the earliest-inserted surviving key; a get hit or a put on a    *)
(* present key does not change a key's eviction position.                  *)
(***************************************************************************)
C19_FifoBound ==
    LET n == Len(inserted)
        m == IF n < MaxEntries THEN n ELSE MaxEntries
    IN  /\ Len(result_cache) <= MaxEntries
        /\ cache_keys(result_cache) = SubSeq(inserted, n - m + 1, n)
        /\ ( n = MaxEntries + 1 /\ Cardinality({inserted[i] : i \in 1..n}) = n )
           => /\ Len(result_cache) = MaxEntries
              /\ ~cache_get(result_cache, inserted[1]).hit
              /\ \A i \in 2..n : cache_get(result_cache, inserted[i]).hit
        /\ (call # NoResult /\ call.op = "get")
           => ret.hit = cache_has(result_cache, call.key)

C19_Witness ==
    /\ Len(inserted) = MaxEntries + 1
    /\ Cardinality({inserted[i] : i \in 1..Len(inserted)}) = MaxEntries + 1
    /\ call # NoResult
    /\ call.op = "put"
    /\ call.present
    /\ call.key = result_cache[1].key
    /\ result_cache[1].value = call.value
    /\ result_cache[2].value # call.value

(***************************************************************************)
(* C20: a cache entry for a job fingerprint exists only if a job-          *)
(* extraction call for that text succeeded; on a miss the successful       *)
(* result is stored before matching proceeds; a failed job extraction      *)
(* leaves the cache unchanged.                                             *)
(***************************************************************************)
C20_StoredAfterExtraction ==
    /\ \A k \in 1..Len(result_cache) :
           \E i \in 1..Len(llm_calls) :
               /\ llm_calls[i].kind = "parse_job_description"
               /\ llm_calls[i].ok
               /\ fingerprint(llm_calls[i].text) = result_cache[k].key
    /\ step \in {"match", "final_analysis", "construct_response"}
       => /\ cache_has(result_cache, fingerprint(jd_text))
          /\ cache_get(result_cache, fingerprint(jd_text)).value = jd_data

(***************************************************************************)
(* C21: on a cache miss the resume-extraction call and the job-extraction  *)
(* call of one request are both launched before either is awaited: at the  *)
(* step that launches the job-extraction call, the result of the           *)
(* resume-extraction call has not yet been received.                       *)
(***************************************************************************)
C21_JobCallBeforeResumeAwaited ==
    [][ ( /\ Len(llm_calls') = Len(llm_calls) + 1
          /\ llm_calls'[Len(llm_calls')].kind = "parse_job_description" )
        => resume_data = NoResult ]_vars

(***************************************************************************)
(* Helpers of the input checks' properties: the trimmed text is the part   *)
(* from the first to the last non-whitespace character.                    *)
(***************************************************************************)
NonSpaceAt(s) == {i \in 1..Len(s) : ~IsSpace(CharAt(s, i))}

Trimmed(s) ==
    IF NonSpaceAt(s) = {} THEN ""
    ELSE LET first == CHOOSE i \in NonSpaceAt(s) : \A k \in NonSpaceAt(s) : i <= k
             last == CHOOSE j \in NonSpaceAt(s) : \A k \in NonSpaceAt(s) : k <= j
         IN  SubSeq(s, first, last)

(***************************************************************************)
(* C22: validate_and_clean rejects the job description with a 400 error    *)
(* exactly when the input is empty or its whitespace-trimmed length is     *)
(* below 50; otherwise it returns the trimmed text, which has at least 50  *)
(* characters.                                                             *)
(***************************************************************************)
C22_JdRejectedIffShort ==
    Returned("validate_and_clean") =>
        LET t == call.jd_text
        IN  /\ ~ret.ok <=> (t = "" \/ Len(Trimmed(t)) < 50)
            /\ ~ret.ok => ret.status_code = 400
            /\ ret.ok => /\ ret.text = Trimmed(t)
                         /\ Len(ret.text) >= 50

C22_Witness ==
    /\ Returned("validate_and_clean")
    /\ ret.ok
    /\ Len(ret.text) = 50
    /\ Len(call.jd_text) > 50

(***************************************************************************)
(* C23: every resume text extract_text_from_pdf returns with success has   *)
(* at least MIN_TEXT_LENGTH (50) characters: the line cleaning does not    *)
(* shrink an accepted text below the minimum length.                       *)
(***************************************************************************)
C23_ReturnedTextLongEnough ==
    (Returned("extract_text_from_pdf") /\ ret.ok)
    => Len(ret.text) >= MIN_TEXT_LENGTH

(***************************************************************************)
(* C24: adding skills to the candidate list never hurts the match: for     *)
(* every C whose elements all occur in C' and every required list R, each  *)
(* skill matched for C is matched for C', and the percentage for C' is at  *)
(* least the percentage for C.                                             *)
(***************************************************************************)
C24_SupersetNeverHurts ==
    Returned("find_matched_skills") =>
        LET Cp == call.resume_skills
            R == call.required_skills
        IN  \A C \in SeqsUpTo(Range(Cp), Len(Cp)) :
                LET found == find_matched_skills(C, R)
                IN  /\ Range(found[1]) \subseteq Range(ret[1])
                    /\ IsSubsequence(found[1], ret[1])
                    /\ calculate_match_percentage(Len(found[1]), Len(R))
                       <= calculate_match_percentage(Len(ret[1]), Len(R))

C24_Witness ==
    /\ Returned("find_matched_skills")
    /\ call.resume_skills = <<"Redis", "JavaScript">>
    /\ call.required_skills = <<"Node.js", "Redis", "Redis">>
    /\ ret[1] = <<"Node.js", "Redis", "Redis">>
    /\ find_matched_skills(<<"Redis">>, call.required_skills)[1] = <<"Redis", "Redis">>
    /\ find_matched_skills(<<"JavaScript">>, call.required_skills)[1] = <<"Node.js">>

(***************************************************************************)
(* C25: normalize_skill is idempotent: normalize_skill(normalize_skill(s)) *)
(* = normalize_skill(s) for every label s; no alias target is itself an    *)
(* alias key, and the sequential pass over the alias table never chains    *)
(* two replacements.                                                       *)
(***************************************************************************)
C25_NormalizeIdempotent ==
    Returned("normalize_skill") =>
        /\ normalize_skill(ret) = ret
        /\ \A k \in 1..Len(replacements) :
               LET target == replacements[k][2]
               IN  /\ target \notin AliasKeys
                   /\ apply_replacements(target, k + 1) = target
                   /\ normalize_skill(target) = target

C25_Witness ==
    /\ Returned("normalize_skill")
    /\ call.skill = " C# "
    /\ ret = "csharp"
    /\ normalize_skill(ret) = "csharp"
    /\ normalize_skill(call.skill) # lower(strip(call.skill))

====
